---- MODULE Spec2Model ----
(***************************************************************************)
(* Model of classifier_224n.py: the train() and test() actions run by the  *)
(* main block, the evaluators model_eval / model_test_eval, the checkpoint *)
(* decision, and the trainability policy of BertCitationClassifier.        *)
(*                                                                         *)
(* Records are named by their row number in the file they were read from.  *)
(* Floats are modelled as exact rationals; a Pearson correlation r is kept *)
(* as the signed square sgn * r^2 = sgn * num / den (order-preserving), or *)
(* NaN.  The device is the default CPU; model_eval reads batch_size from   *)
(* the module-level args, which holds the value train() was given.         *)
(***************************************************************************)
EXTENDS Integers, Sequences, FiniteSets, TLC

\* ---------------------------------------------------------------- bounds
MaxEpochs == 2
SmallTrainLen == 3
ExtraRecords == 1

\* ------------------------------------------------------ program constants
TRAIN_LIMIT == 100
DEV_START == 10000
DEV_COUNT == 10
TEST_LIMIT == 20
BEST_INIT == 0
DEV_UNPACK_TARGETS == 6
TEST_UNPACK_TARGETS == 3

\* --------------------------------------------------------------- helpers
Min(a, b) == IF a < b THEN a ELSE b

Abs(a) == IF a < 0 THEN -a ELSE a

Sgn(a) == IF a < 0 THEN -1 ELSE IF a > 0 THEN 1 ELSE 0

RECURSIVE Gcd(_, _)
Gcd(a, b) == IF b = 0 THEN a ELSE Gcd(b, a % b)

RECURSIVE SumSeq(_)
SumSeq(s) == IF s = <<>> THEN 0 ELSE Head(s) + SumSeq(Tail(s))

Count(s, x) == Cardinality({i \in 1..Len(s) : s[i] = x})

\* rationals n/d in lowest terms, d > 0 (the float arithmetic of the losses)
Rat(n, d) ==
    LET g == Gcd(Abs(n), d) IN [n |-> n \div g, d |-> d \div g]

RZero == [n |-> 0, d |-> 1]

RAdd(p, q) == Rat(p.n * q.d + q.n * p.d, p.d * q.d)

RDivInt(p, k) == Rat(p.n, p.d * k)

RECURSIVE RSum(_)
RSum(s) == IF s = <<>> THEN RZero ELSE RAdd(Head(s), RSum(Tail(s)))

\* ------------------------------------------------------- correlation values
NaN == [nan |-> TRUE, sgn |-> 0, num |-> 0, den |-> 1]

CorrOfInt(k) == [nan |-> FALSE, sgn |-> Sgn(k), num |-> k * k, den |-> 1]

IsNaN(c) == c.nan

\* Python's c1 > c2 on floats: False whenever either side is NaN.
FloatGt(c1, c2) ==
    /\ ~c1.nan
    /\ ~c2.nan
    /\ c1.sgn * c1.num * c2.den > c2.sgn * c2.num * c1.den

\* np.corrcoef(x, y)[1][0]: cov / sqrt(var_x * var_y); 0/0 gives nan (a warning,
\* not an exception), also for an empty or one-element input.
Corrcoef(xs, ys) ==
    LET n   == Len(xs)
        sx  == SumSeq(xs)
        sy  == SumSeq(ys)
        sxy == SumSeq([i \in 1..n |-> xs[i] * ys[i]])
        sxx == SumSeq([i \in 1..n |-> xs[i] * xs[i]])
        syy == SumSeq([i \in 1..n |-> ys[i] * ys[i]])
        cov == n * sxy - sx * sy
        vx  == n * sxx - sx * sx
        vy  == n * syy - sy * sy
        g   == Gcd(cov * cov, vx * vy)
    IN  IF vx * vy = 0
        THEN NaN
        ELSE [nan |-> FALSE, sgn |-> Sgn(cov),
              num |-> (cov * cov) \div g, den |-> (vx * vy) \div g]

\* ----------------------------------------------------------------- records
\* load_data: the rows of a file, in file order; data[a:b] keeps rows a+1..b.
FileSlice(n, start, stop) ==
    [k \in 1..(Min(stop, n) - Min(start, n)) |-> Min(start, n) + k]

\* int(record['sentiment']) of row r
LabelOf(kind, r) == IF kind = "constant" THEN 2 ELSE (r - 1) % 5

\* record['id'] of row r
IdOf(r) == r

\* ------------------------------------------------------------ configuration
Modes == {"last-linear-layer", "full-model", "other"}

BatchSizes == {8, 64}

\* lengths of the training file (also the test file: both paths name it)
TrainFileLens == {SmallTrainLen, TRAIN_LIMIT + ExtraRecords}

\* the held-out file: its length and the kind of labels it holds
DevFiles ==
    { [len |-> SmallTrainLen + DEV_COUNT, labels |-> "cyclic"],
      [len |-> DEV_START + DEV_COUNT - SmallTrainLen, labels |-> "cyclic"],
      [len |-> DEV_START + DEV_COUNT + ExtraRecords, labels |-> "cyclic"],
      [len |-> DEV_START + DEV_COUNT + ExtraRecords, labels |-> "constant"] }

\* ------------------------------------------------------------ scoring model
BertParams == {"bert.embeddings", "bert.encoder"}

HeadParams == {"classifier.weight", "classifier.bias"}

Params == BertParams \cup HeadParams

\* values the encoder / head parameters range over; 0 is the pretrained encoder
BertValues == {0, 1}

HeadValues ==
    { [w |-> -1, b |-> 0], [w |-> 0, b |-> 1], [w |-> 1, b |-> 0] }

NoModel ==
    [built |-> FALSE, mode |-> "none", bert |-> 0, head |-> [w |-> 0, b |-> 0],
     training |-> FALSE,
     requires_grad |-> [p \in Params |-> FALSE],
     grad |-> [p \in Params |-> FALSE]]

\* variant: the freezing loop is missing
RequiresGradAllTrue(mode) == [p \in Params |-> TRUE]

\* __init__: the loop over self.bert.parameters(); nn.Linear parameters keep
\* the default requires_grad = True
RequiresGradInit(mode) ==
    [p \in Params |->
        IF p \in BertParams
        THEN (IF mode = "last-linear-layer" THEN FALSE ELSE TRUE)
        ELSE TRUE]

\* BertCitationClassifier(config) for an accepted mode; a fresh nn.Module is
\* in training mode and has no gradients
NewModel(mode, bert, head) ==
    [built |-> TRUE, mode |-> mode, bert |-> bert, head |-> head,
     training |-> TRUE,
     requires_grad |-> RequiresGradInit(mode),
     grad |-> [p \in Params |-> FALSE]]

ModeAccepted(mode) == mode \in {"last-linear-layer", "full-model"}

\* the encoder's pooler_output for row r (external collaborator): one feature
Pooled(bert, r) == IF bert = 0 THEN ((r - 1) % 5) \div 2 ELSE r % 3

\* forward() with dropout inactive: classifier(pooler_output)
Forward(m, r) == m.head.w * Pooled(m.bert, r) + m.head.b

\* ------------------------------------------------------------- data loader
Reverse(s) == [i \in 1..Len(s) |-> s[Len(s) + 1 - i]]

Rotate(s) == IF s = <<>> THEN s ELSE Tail(s) \o <<Head(s)>>

\* orders one iteration of a DataLoader can yield: the dataset order, or with
\* shuffle=True a permutation drawn by the sampler
LoaderOrders(data, shuffle) ==
    IF shuffle THEN {data, Reverse(data), Rotate(data)} ELSE {data}

NumBatches(n, bs) == (n + bs - 1) \div bs

\* variant: drop_last=True, the remainder is not batched
BatchesDropLast(order, bs) ==
    [i \in 1..(Len(order) \div bs) |->
        SubSeq(order, (i - 1) * bs + 1, i * bs)]

\* drop_last is False: the last batch holds the remainder
BatchesOf(order, bs) ==
    [i \in 1..NumBatches(Len(order), bs) |->
        SubSeq(order, (i - 1) * bs + 1, Min(i * bs, Len(order)))]

\* ---------------------------------------------------------------- evaluator
\* F.mse_loss(logits, labels) / args.batch_size for one batch
BatchLoss(m, batch, kind, bs) ==
    Rat(SumSeq([k \in 1..Len(batch) |->
                 (Forward(m, batch[k]) - LabelOf(kind, batch[k]))
                 * (Forward(m, batch[k]) - LabelOf(kind, batch[k]))]),
        Len(batch) * bs)

\* the loop of model_eval: loss += ..., y_pred.extend, y_true.extend,
\* sent_ids.extend
RECURSIVE EvalLoop(_, _, _, _, _)
EvalLoop(batches, m, kind, bs, acc) ==
    IF batches = <<>>
    THEN acc
    ELSE LET batch == Head(batches) IN
         EvalLoop(Tail(batches), m, kind, bs,
            [loss     |-> RAdd(acc.loss, BatchLoss(m, batch, kind, bs)),
             y_pred   |-> acc.y_pred \o [k \in 1..Len(batch) |-> Forward(m, batch[k])],
             y_true   |-> acc.y_true \o [k \in 1..Len(batch) |-> LabelOf(kind, batch[k])],
             sent_ids |-> acc.sent_ids \o [k \in 1..Len(batch) |-> IdOf(batch[k])]])

\* model_eval's return statement: loss, sts_corr, y_pred, sent_ids
ModelEval(order, m, kind, bs) ==
    LET acc == EvalLoop(BatchesOf(order, bs), m, kind, bs,
                        [loss |-> RZero, y_pred |-> <<>>, y_true |-> <<>>,
                         sent_ids |-> <<>>])
    IN  <<acc.loss, Corrcoef(acc.y_pred, acc.y_true), acc.y_pred, acc.sent_ids>>

\* model_test_eval's return statement: y_pred, sent_ids
ModelTestEval(order, m, bs) ==
    << [k \in 1..Len(order) |-> Forward(m, order[k])],
       [k \in 1..Len(order) |-> IdOf(order[k])] >>

\* variant: the evaluator puts the caller's mode back before returning
AfterEvalRestored(m) == m

\* model.eval() at the top of both evaluators; nothing sets it back
AfterEval(m) == [m EXCEPT !.training = FALSE]

\* -------------------------------------------------------------------- state
VARIABLES
    args,          \* the configuration object handed to train() and test()
    files,         \* the training file's length and the held-out file
    pc,            \* position in the main block: train(config); test(config)
    error,         \* the exception that ended the run and the function it left
    model,         \* the BertCitationClassifier instance in use
    optim,         \* number of optimizer.step() calls (AdamW state)
    grad_enabled,  \* torch's gradient mode (False inside torch.no_grad())
    train_data,    \* rows kept by train()
    dev_data,      \* held-out rows kept by train() / test()
    test_data,     \* rows kept by test()
    epoch,         \* the loop variable of train()
    best_dev_acc,  \* best held-out correlation so far
    batches,       \* batches the training loop has still to take this epoch
    num_batches,   \* batches taken this epoch
    passIds,       \* ids of the rows taken this epoch, in order
    ret,           \* the value returned by the latest evaluator call
    evalCalls,     \* one entry per evaluator call made so far
    corrLog,       \* dev_corr of every checkpoint decision, in order
    saveLog,       \* whether save_model ran at that decision
    ckpt,          \* the checkpoint file at args.filepath
    outputs        \* the prediction files written by test()

vars ==
    <<args, files, pc, error, model, optim, grad_enabled, train_data, dev_data,
      test_data, epoch, best_dev_acc, batches, num_batches, passIds, ret,
      evalCalls, corrLog, saveLog, ckpt, outputs>>

NoCkpt == [exists |-> FALSE, mode |-> "none", bert |-> 0,
           head |-> [w |-> 0, b |-> 0], optim |-> 0]

\* a checkpoint left at args.filepath by an earlier run
OldCkpt == [exists |-> TRUE, mode |-> "full-model", bert |-> 1,
            head |-> [w |-> 1, b |-> 0], optim |-> 1]

NoError == [in |-> "", exc |-> ""]

Init ==
    /\ args \in [fine_tune_mode : Modes, batch_size : BatchSizes,
                 epochs : 0..MaxEpochs]
    /\ files \in [train : TrainFileLens, dev : DevFiles]
    /\ ckpt \in {NoCkpt, OldCkpt}
    /\ pc = "idle"
    /\ error = NoError
    /\ model = NoModel
    /\ optim = 0
    /\ grad_enabled = TRUE
    /\ train_data = <<>>
    /\ dev_data = <<>>
    /\ test_data = <<>>
    /\ epoch = 0
    /\ best_dev_acc = CorrOfInt(BEST_INIT)
    /\ batches = <<>>
    /\ num_batches = 0
    /\ passIds = <<>>
    /\ ret = <<>>
    /\ evalCalls = {}
    /\ corrLog = <<>>
    /\ saveLog = <<>>
    /\ outputs = [dev |-> <<>>, test |-> <<>>]

Raise(fn, exc) ==
    /\ pc' = "raised"
    /\ error' = [in |-> fn, exc |-> exc]

\* one evaluator call: what it was given, what it left behind
EvalCall(fn, caller, split, m, nbatches) ==
    [fn |-> fn, caller |-> caller, split |-> split, epoch |-> epoch,
     trainingIn |-> m.training, trainingOut |-> AfterEval(m).training,
     grad |-> grad_enabled, forwards |-> nbatches]

\* model_eval(dataloader, model, device) called from train() or test()
CallModelEval(caller, split, data, shuffle, kind) ==
    \E order \in LoaderOrders(data, shuffle) :
        /\ ret' = ModelEval(order, AfterEval(model), kind, args.batch_size)
        /\ model' = AfterEval(model)
        /\ evalCalls' = evalCalls \cup
              {EvalCall("model_eval", caller, split, model,
                        NumBatches(Len(data), args.batch_size))}

\* train(), lines 260-290: load and cut the data, build the model and optimizer
TrainSetup ==
    /\ pc = "idle"
    /\ train_data' = FileSlice(files.train, 0, TRAIN_LIMIT)
    /\ dev_data' = FileSlice(files.dev.len, DEV_START, DEV_START + DEV_COUNT)
    /\ IF ModeAccepted(args.fine_tune_mode)
       THEN /\ \E h \in HeadValues :
                  model' = NewModel(args.fine_tune_mode, 0, h)
            /\ pc' = "pre_eval_train"
            /\ error' = error
       ELSE /\ Raise("train", "AssertionError")
            /\ model' = model
    /\ UNCHANGED <<args, files, optim, grad_enabled, test_data, epoch,
                   best_dev_acc, batches, num_batches, passIds, ret, evalCalls,
                   corrLog, saveLog, ckpt, outputs>>

\* line 292
PreEvalTrain ==
    /\ pc = "pre_eval_train"
    /\ CallModelEval("train_pre", "train", train_data, TRUE, "cyclic")
    /\ pc' = "pre_eval_dev"
    /\ UNCHANGED <<args, files, error, optim, grad_enabled, train_data, dev_data,
                   test_data, epoch, best_dev_acc, batches, num_batches, passIds,
                   corrLog, saveLog, ckpt, outputs>>

\* lines 293-294
PreEvalDev ==
    /\ pc = "pre_eval_dev"
    /\ CallModelEval("train_pre", "dev", dev_data, FALSE, files.dev.labels)
    /\ pc' = "loop"
    /\ UNCHANGED <<args, files, error, optim, grad_enabled, train_data, dev_data,
                   test_data, epoch, best_dev_acc, batches, num_batches, passIds,
                   corrLog, saveLog, ckpt, outputs>>

\* variant: one epoch too many
LoopContinuesOffByOne(e, n) == e <= n

\* line 297: for epoch in range(args.epochs)
LoopContinues(e, n) == e < n

\* lines 297-301: the loop takes another epoch; model.train(), a fresh iterator
EpochStart ==
    /\ pc = "loop"
    /\ LoopContinues(epoch, args.epochs)
    /\ model' = [model EXCEPT !.training = TRUE]
    /\ \E order \in LoaderOrders(train_data, TRUE) :
          batches' = BatchesOf(order, args.batch_size)
    /\ num_batches' = 0
    /\ passIds' = <<>>
    /\ ret' = <<>>
    /\ pc' = "batch"
    /\ UNCHANGED <<args, files, error, optim, grad_enabled, train_data, dev_data,
                   test_data, epoch, best_dev_acc, evalCalls, corrLog, saveLog,
                   ckpt, outputs>>

\* loss.backward(): a parameter gets a gradient iff it requires one
Backward(m) ==
    [m EXCEPT !.grad = [p \in Params |-> m.requires_grad[p] /\ grad_enabled]]

\* optimizer.step(): parameters without a gradient are skipped, the others
\* move (the update itself, and dropout's mask, are not computed here)
StepOutcomes(m) ==
    { [m EXCEPT !.bert = bv, !.head = hv] :
        bv \in (IF \E p \in BertParams : m.grad[p] THEN BertValues ELSE {m.bert}),
        hv \in (IF \E p \in HeadParams : m.grad[p] THEN HeadValues ELSE {m.head}) }

\* lines 301-322: one batch: zero_grad, forward, loss, backward, step
TrainStep ==
    /\ pc = "batch"
    /\ batches # <<>>
    /\ model' \in StepOutcomes(Backward(model))
    /\ optim' = optim + 1
    /\ passIds' = passIds \o [k \in 1..Len(Head(batches)) |-> IdOf(Head(batches)[k])]
    /\ batches' = Tail(batches)
    /\ num_batches' = num_batches + 1
    /\ UNCHANGED <<args, files, pc, error, grad_enabled, train_data, dev_data,
                   test_data, epoch, best_dev_acc, ret, evalCalls, corrLog,
                   saveLog, ckpt, outputs>>

\* lines 324-326: train_loss / num_batches, then model_eval on the training split
PostEvalTrain ==
    /\ pc = "batch"
    /\ batches = <<>>
    /\ IF num_batches = 0
       THEN /\ Raise("train", "ZeroDivisionError")
            /\ UNCHANGED <<model, ret, evalCalls>>
       ELSE /\ CallModelEval("train_post", "train", train_data, TRUE, "cyclic")
            /\ pc' = "eval_dev"
            /\ error' = error
    /\ UNCHANGED <<args, files, optim, grad_enabled, train_data, dev_data,
                   test_data, epoch, best_dev_acc, batches, num_batches, passIds,
                   corrLog, saveLog, ckpt, outputs>>

\* line 327
PostEvalDev ==
    /\ pc = "eval_dev"
    /\ CallModelEval("train_post", "dev", dev_data, FALSE, files.dev.labels)
    /\ pc' = "ckpt"
    /\ UNCHANGED <<args, files, error, optim, grad_enabled, train_data, dev_data,
                   test_data, epoch, best_dev_acc, batches, num_batches, passIds,
                   corrLog, saveLog, ckpt, outputs>>

\* variant: the comparison written as >=, so a tie is saved again
ShouldSaveOnTie(dev_corr, best) ==
    FloatGt(dev_corr, best) \/ (~dev_corr.nan /\ ~best.nan /\ ~FloatGt(best, dev_corr))

\* variant: the comparison written as not (dev_corr <= best), true for NaN
ShouldSaveUnlessLe(dev_corr, best) ==
    dev_corr.nan \/ best.nan \/ FloatGt(dev_corr, best)

\* line 329: dev_corr > best_dev_acc
ShouldSave(dev_corr, best) == FloatGt(dev_corr, best)

\* save_model: the bundle written to args.filepath
SaveInfo(m, a, steps) ==
    [exists |-> TRUE, mode |-> a.fine_tune_mode, bert |-> m.bert,
     head |-> m.head, optim |-> steps]

\* lines 329-333: the checkpoint decision that ends an epoch
CheckpointDecision ==
    /\ pc = "ckpt"
    /\ LET dev_corr == ret[2] IN
         /\ IF ShouldSave(dev_corr, best_dev_acc)
            THEN /\ best_dev_acc' = dev_corr
                 /\ ckpt' = SaveInfo(model, args, optim)
            ELSE UNCHANGED <<best_dev_acc, ckpt>>
         /\ corrLog' = Append(corrLog, dev_corr)
         /\ saveLog' = Append(saveLog, ShouldSave(dev_corr, best_dev_acc))
    /\ epoch' = epoch + 1
    /\ ret' = <<>>
    /\ passIds' = <<>>
    /\ pc' = "loop"
    /\ UNCHANGED <<args, files, error, model, optim, grad_enabled, train_data,
                   dev_data, test_data, batches, num_batches, evalCalls, outputs>>

\* test(), lines 337-354: enter torch.no_grad(), load the checkpoint, rebuild
\* the model from the saved config and weights, load and cut both files
TestLoad ==
    /\ pc = "loop"
    /\ ~LoopContinues(epoch, args.epochs)
    /\ IF ~ckpt.exists
       THEN /\ Raise("test", "FileNotFoundError")
            /\ UNCHANGED <<model, grad_enabled, dev_data, test_data>>
       ELSE IF ~ModeAccepted(ckpt.mode)
       THEN /\ Raise("test", "AssertionError")
            /\ UNCHANGED <<model, grad_enabled, dev_data, test_data>>
       ELSE /\ model' = NewModel(ckpt.mode, ckpt.bert, ckpt.head)
            /\ grad_enabled' = FALSE
            /\ dev_data' = FileSlice(files.dev.len, 0, TEST_LIMIT)
            /\ test_data' = FileSlice(files.train, 0, TEST_LIMIT)
            /\ pc' = "test_eval"
            /\ error' = error
    /\ ret' = <<>>
    /\ UNCHANGED <<args, files, optim, train_data, epoch, best_dev_acc, batches,
                   num_batches, passIds, evalCalls, corrLog, saveLog, ckpt,
                   outputs>>

\* the rows test() writes: a header line, then "id , score" per zipped pair
PredictionFile(ids, preds) ==
    <<"id \t Predicted_Citation \n">> \o
    [k \in 1..Min(Len(ids), Len(preds)) |-> <<ids[k], " , ", preds[k], " \n">>]

\* test(), lines 356-369: both evaluations, each unpacked into the names of
\* its assignment, then the two prediction files; leaving the with block
\* (normally or by an exception) restores the gradient mode
TestEval ==
    /\ pc = "test_eval"
    /\ LET m1 == AfterEval(model)
           r1 == ModelEval(dev_data, m1, files.dev.labels, args.batch_size)
           c1 == EvalCall("model_eval", "test", "dev", model,
                          NumBatches(Len(dev_data), args.batch_size))
           r2 == ModelTestEval(test_data, m1, args.batch_size)
           c2 == EvalCall("model_test_eval", "test", "test", m1,
                          NumBatches(Len(test_data), args.batch_size))
       IN  /\ model' = m1
           /\ IF Len(r1) # DEV_UNPACK_TARGETS
              THEN /\ Raise("test", "ValueError")
                   /\ ret' = r1
                   /\ evalCalls' = evalCalls \cup {c1}
                   /\ outputs' = outputs
              ELSE IF Len(r2) # TEST_UNPACK_TARGETS
              THEN /\ Raise("test", "ValueError")
                   /\ ret' = r2
                   /\ evalCalls' = evalCalls \cup {c1, c2}
                   /\ outputs' = outputs
              ELSE /\ pc' = "test_done"
                   /\ error' = error
                   /\ ret' = r2
                   /\ evalCalls' = evalCalls \cup {c1, c2}
                   /\ outputs' = [dev  |-> PredictionFile(r1[6], r1[3]),
                                  test |-> PredictionFile(r2[3], r2[1])]
    /\ grad_enabled' = TRUE
    /\ UNCHANGED <<args, files, optim, train_data, dev_data, test_data, epoch,
                   best_dev_acc, batches, num_batches, passIds, corrLog, saveLog,
                   ckpt>>

Next ==
    \/ TrainSetup
    \/ PreEvalTrain
    \/ PreEvalDev
    \/ EpochStart
    \/ TrainStep
    \/ PostEvalTrain
    \/ PostEvalDev
    \/ CheckpointDecision
    \/ TestLoad
    \/ TestEval

Spec == Init /\ [][Next]_vars

\* ===================================================================== claims
Range(s) == {s[i] : i \in 1..Len(s)}

Last(s) == s[Len(s)]

\* ------------------------------------------------------------------------ C1
\* C1 as stated: save_model runs after epoch i exactly when c_i is greater than
\* every earlier c_j; it never runs for a tied or non-improving c_i.
\* (A NaN c_i counts as no maximum, and a NaN c_j as no competitor.)
C1_SaveIffStrictRunningMax ==
    \A i \in 1..Len(corrLog) :
        saveLog[i] <=>
            /\ ~IsNaN(corrLog[i])
            /\ \A j \in 1..(i - 1) :
                  IsNaN(corrLog[j]) \/ FloatGt(corrLog[i], corrLog[j])

\* C1 amended: save_model runs after epoch i exactly when c_i is greater than
\* the initial best_dev_acc (0) and greater than every earlier c_j that is not
\* NaN; right after such a decision the checkpoint file holds the current
\* model and best_dev_acc is c_i.
C1_SaveIffAboveBest ==
    /\ Len(saveLog) = Len(corrLog)
    /\ \A i \in 1..Len(corrLog) :
          saveLog[i] <=>
            /\ FloatGt(corrLog[i], CorrOfInt(BEST_INIT))
            /\ \A j \in 1..(i - 1) :
                  IsNaN(corrLog[j]) \/ FloatGt(corrLog[i], corrLog[j])
    /\ (pc = "loop" /\ saveLog # <<>> /\ Last(saveLog)) =>
          /\ ckpt = SaveInfo(model, args, optim)
          /\ best_dev_acc = Last(corrLog)

\* a run whose first epoch saved and whose second, with a positive but not
\* better correlation, did not
C1_Witness ==
    /\ Len(corrLog) >= 2
    /\ saveLog[1]
    /\ ~saveLog[2]
    /\ FloatGt(corrLog[2], CorrOfInt(BEST_INIT))

\* ----------------------------------------------------------------------- C10
ZeroVariance(s) == \A i, j \in 1..Len(s) : s[i] = s[j]

\* C10: when the predictions or the labels of the held-out split have zero
\* variance model_eval returns NaN without raising, and the checkpoint decision
\* of that epoch writes no checkpoint, keeps best_dev_acc and moves on to the
\* loop head with the next epoch number.
C10_DegenerateEvalIsData ==
    /\ [](pc = "ckpt" =>
            /\ error = NoError
            /\ (ZeroVariance(ret[3])
                 \/ ZeroVariance([k \in 1..Len(dev_data) |->
                                    LabelOf(files.dev.labels, dev_data[k])]))
                => IsNaN(ret[2]))
    /\ [][(pc = "ckpt" /\ IsNaN(ret[2])) =>
            /\ ckpt' = ckpt
            /\ best_dev_acc' = best_dev_acc
            /\ pc' = "loop"
            /\ epoch' = epoch + 1
            /\ error' = NoError]_vars

\* a non-empty held-out split gave NaN in the first epoch and the run went on
\* to decide a second epoch
C10_Witness ==
    /\ Len(corrLog) = 2
    /\ IsNaN(corrLog[1])
    /\ Len(dev_data) = DEV_COUNT
    /\ ~saveLog[1]
    /\ pc = "loop"

\* ------------------------------------------------------------------------ C2
\* C2: once test() has loaded the checkpoint and called an evaluator, it has
\* run to completion and each prediction file holds a header line and one row
\* per evaluated record.
C2_TestWritesBothFiles ==
    (\E c \in evalCalls : c.caller = "test") =>
        /\ pc = "test_done"
        /\ Len(outputs.dev) = Len(dev_data) + 1
        /\ Len(outputs.test) = Len(test_data) + 1

\* ------------------------------------------------------------------------ C3
\* the row an id names (ids are row numbers here)
RowOfId(id) == id

OriginalOrderIds(data) == [k \in 1..Len(data) |-> IdOf(data[k])]

\* C3 as stated: the post-epoch model_eval on the training split returns N
\* predictions and N ids, the ids in the original record order of the split.
C3_TrainEvalInOriginalOrder ==
    pc = "eval_dev" =>
        /\ Len(ret[3]) = Len(train_data)
        /\ Len(ret[4]) = Len(train_data)
        /\ ret[4] = OriginalOrderIds(train_data)

\* C3 amended: that call returns N predictions and N ids; the ids are the
\* split's ids, each once, in the order the shuffling loader yielded them; the
\* prediction at position k is the model's output for the record whose id is
\* at position k.  The held-out split (shuffle=False) comes back in original
\* record order.
C3_TrainEvalIsPairedPermutation ==
    /\ pc = "eval_dev" =>
          /\ Len(ret[3]) = Len(train_data)
          /\ Len(ret[4]) = Len(train_data)
          /\ Cardinality(Range(ret[4])) = Len(train_data)
          /\ Range(ret[4]) = {IdOf(r) : r \in Range(train_data)}
          /\ \A k \in 1..Len(ret[4]) :
                ret[3][k] = Forward(model, RowOfId(ret[4][k]))
    /\ pc = "ckpt" =>
          /\ Len(ret[3]) = Len(dev_data)
          /\ ret[4] = OriginalOrderIds(dev_data)

\* a post-epoch evaluation of a full training split that came back in another
\* order than the split's
C3_Witness ==
    /\ pc = "eval_dev"
    /\ Len(train_data) = TRAIN_LIMIT
    /\ Len(ret[4]) = TRAIN_LIMIT
    /\ ret[4] # OriginalOrderIds(train_data)

\* ------------------------------------------------------------------------ C4
\* C4 as stated: when an evaluator returns, the model's training flag has the
\* value it had when the evaluator was called.
C4_EvaluatorRestoresFlag ==
    \A c \in evalCalls : c.trainingOut = c.trainingIn

\* C4 amended: an evaluator leaves the training flag off when it returns,
\* whatever it was at the call, and changes nothing else of the model or the
\* optimizer; train() turns the flag on again at the head of each epoch, so
\* every training batch is taken with the flag on.
C4_EvaluatorLeavesInferenceMode ==
    /\ [](\A c \in evalCalls : ~c.trainingOut)
    /\ []((pc = "batch" /\ batches # <<>>) => model.training)
    /\ [][evalCalls' # evalCalls =>
            /\ ~model'.training
            /\ model'.bert = model.bert
            /\ model'.head = model.head
            /\ model'.grad = model.grad
            /\ model'.requires_grad = model.requires_grad
            /\ model'.mode = model.mode
            /\ optim' = optim]_vars

\* an evaluator was called in training mode and returned in inference mode,
\* and a later epoch is taking batches in training mode
C4_Witness ==
    /\ \E c \in evalCalls :
          c.caller = "train_post" /\ c.trainingIn /\ ~c.trainingOut
    /\ pc = "batch"
    /\ batches # <<>>
    /\ epoch >= 1
    /\ model.training

\* ------------------------------------------------------------------------ C5
\* C5: every evaluator call that ran a forward pass ran it with gradient
\* tracking disabled, whether made by train() or by test().
C5_EvalForwardsUntracked ==
    \A c \in evalCalls : c.forwards > 0 => ~c.grad

\* ------------------------------------------------------------------------ C6
\* the per-batch losses of the pass that produced ret (ids name the rows)
BatchLossesOfRet(kind) ==
    LET bs == BatchesOf(ret[4], args.batch_size)
    IN  [i \in 1..Len(bs) |-> BatchLoss(model, bs[i], kind, args.batch_size)]

\* C6: the loss model_eval returns over K >= 1 batches is the mean of the K
\* per-batch losses.
C6_EvalLossIsMeanOfBatchLosses ==
    pc \in {"pre_eval_dev", "eval_dev", "ckpt"} =>
        LET kind == IF pc = "ckpt" THEN files.dev.labels ELSE "cyclic"
            bl   == BatchLossesOfRet(kind)
        IN  Len(bl) >= 1 => ret[1] = RDivInt(RSum(bl), Len(bl))

\* ------------------------------------------------------------------------ C7
\* C7: a built model has an accepted mode and the trainability that mode
\* fixes: head-only freezes every encoder parameter (none ever holds a
\* gradient, the encoder stays as pretrained) and leaves every head parameter
\* trainable, full-model leaves every parameter trainable; training steps,
\* evaluations and saves change neither; another mode value builds no model.
C7_FineTuneModeFixed ==
    /\ [](model.built =>
            /\ ModeAccepted(model.mode)
            /\ model.mode = "last-linear-layer" =>
                  /\ \A p \in BertParams :
                        ~model.requires_grad[p] /\ ~model.grad[p]
                  /\ \A p \in HeadParams : model.requires_grad[p]
                  /\ model.bert = 0
            /\ model.mode = "full-model" =>
                  \A p \in Params : model.requires_grad[p])
    /\ [](~ModeAccepted(args.fine_tune_mode) =>
            /\ ~model.built
            /\ pc \in {"idle", "raised"}
            /\ pc = "raised" => error.exc = "AssertionError")
    /\ [][(model.built /\ pc # "loop") =>
            /\ model'.mode = model.mode
            /\ model'.requires_grad = model.requires_grad]_vars

\* a head-only model that has taken optimizer steps, been evaluated and been
\* saved, at the end of its last epoch
C7_Witness ==
    /\ model.built
    /\ model.mode = "last-linear-layer"
    /\ pc = "loop"
    /\ epoch = args.epochs
    /\ optim >= 2
    /\ saveLog # <<>>
    /\ Last(saveLog)
    /\ model.grad["classifier.weight"]

\* ------------------------------------------------------------------------ C8
\* the state of the train action, read from the position in train()
Phase ==
    CASE pc = "idle" -> "Idle"
      [] pc \in {"pre_eval_train", "pre_eval_dev"} -> "PreEvaluating"
      [] pc = "loop" ->
            IF LoopContinues(epoch, args.epochs) THEN "Training" ELSE "Done"
      [] pc = "batch" -> IF batches # <<>> THEN "Training" ELSE "Evaluating"
      [] pc = "eval_dev" -> "Evaluating"
      [] pc = "ckpt" -> "CheckpointDecision"
      [] pc \in {"test_eval", "test_done"} -> "Done"
      [] pc = "raised" -> IF error.in = "train" THEN "Failed" ELSE "Done"

StatedTransitions ==
    { <<"Idle", "Training">>, <<"Training", "Evaluating">>,
      <<"Evaluating", "CheckpointDecision">>,
      <<"CheckpointDecision", "Training">>, <<"CheckpointDecision", "Done">> }

Aborts == { <<"Idle", "Failed">>, <<"Evaluating", "Failed">> }

\* C8 as stated: train() moves only Idle -> Training -> Evaluating ->
\* CheckpointDecision -> Training | Done (or aborts); the evaluator is never
\* entered from Idle.
C8_StatedStateMachine ==
    [][Phase' # Phase => <<Phase, Phase'>> \in StatedTransitions \cup Aborts]_vars

\* C8 amended: train() first runs one evaluation pair straight from Idle,
\* before any training and with no checkpoint decision, and goes from it to
\* Training(epoch=0), or to Done when no epoch is configured; after that it
\* follows the stated transitions.  Every post-epoch evaluation pair is
\* followed by exactly one checkpoint decision, and Done is reached after
\* exactly the configured number of epochs.
C8_StateMachineWithBaselineEval ==
    /\ [][Phase' # Phase =>
            \/ <<Phase, Phase'>> \in (StatedTransitions \ {<<"Idle", "Training">>})
            \/ <<Phase, Phase'>> \in Aborts
            \/ <<Phase, Phase'>> = <<"Idle", "PreEvaluating">>
            \/ /\ <<Phase, Phase'>> \in {<<"PreEvaluating", "Training">>,
                                         <<"PreEvaluating", "Done">>}
               /\ epoch = 0
               /\ saveLog = <<>>]_vars
    /\ [](Len(saveLog) = epoch)
    /\ [](Cardinality({c \in evalCalls : c.caller = "train_post" /\ c.split = "dev"})
            = epoch + (IF pc = "ckpt" THEN 1 ELSE 0))
    /\ [](Cardinality({c \in evalCalls : c.caller = "train_pre"}) <= 2)
    /\ [](Phase = "Done" => epoch = args.epochs)

\* a run that evaluated before training and then finished every configured
\* epoch
C8_Witness ==
    /\ Phase = "Done"
    /\ pc = "loop"
    /\ args.epochs >= 2
    /\ epoch = args.epochs
    /\ \E c \in evalCalls : c.caller = "train_pre" /\ c.forwards > 0

\* ------------------------------------------------------------------------ C9
\* C9: at the end of an epoch's batches every row of the training file has
\* been in exactly one batch, and the post-epoch evaluations return every row
\* of the training file, and of the held-out file, exactly once.
C9_FullPasses ==
    /\ (pc = "batch" /\ batches = <<>> /\ num_batches > 0) =>
          \A r \in 1..files.train : Count(passIds, IdOf(r)) = 1
    /\ pc = "eval_dev" =>
          \A r \in 1..files.train : Count(ret[4], IdOf(r)) = 1
    /\ pc = "ckpt" =>
          \A r \in 1..files.dev.len : Count(ret[4], IdOf(r)) = 1

====
